---- MODULE Spec2Model ----
(***************************************************************************)
(* Fast Change Directory (fcd.py): the alias store, the resolver loops,    *)
(* the add / delete / set-command handlers and the hand-off files, over    *)
(* a sequence of invocations sharing one home directory.                   *)
(*                                                                         *)
(* Python str values are sequences of one-character strings, so that       *)
(* startswith, str.lower and the ordering of sorted() are computed.        *)
(* None and True (argparse's "no option" and const=True) are one-element   *)
(* tuples that are no str.                                                 *)
(***************************************************************************)
EXTENDS Integers, Sequences, FiniteSets, TLC

VARIABLES
    file,        \* ~/.fcd.json : [state: absent | corrupt | ok, db: store]
    dirFile,     \* ~/.fcd_dir  : [exists, text]
    cmdFile,     \* ~/.fcd_cmd  : [exists, text]
    disk,        \* the directories that exist (os.path.isdir)
    cwd,         \* os.getcwd() of the running invocation
    pc,          \* position of the process
    args,        \* the dict parse_args returned
    db,          \* Fcd._db
    aliases,     \* Fcd._aliases, the list the completer holds
    records,     \* the list `records` of args_handler
    partial,     \* the local `alias` of the resolver loop that is running
    exitStatus,  \* exit status of the process, NoStatus while it runs
    run,         \* history: number of the invocation
    nread,       \* history: calls of read_input / input in this invocation
    resolver,    \* history: the resolver loop entered last in this invocation
    pre,         \* history: db and file when the current dispatch branch began
    ev,          \* history: what this invocation has done so far
    typed,       \* history: the text input() returned for the command
    tab          \* readline's completion: the text and the results so far

vars == <<file, dirFile, cmdFile, disk, cwd, pc, args, db, aliases, records,
          partial, exitStatus, run, nread, resolver, pre, ev, typed,
          tab>>

-----------------------------------------------------------------------------
(* Bounds *)

MaxRuns == 2
MaxInputs == 2

-----------------------------------------------------------------------------
(* Values *)

None == <<"None">>
True == <<"True">>
IsStr(v) == v # None /\ v # True

NoStatus == 0 - 1

Empty == <<>>
NL == <<"\n">>

dummy == <<"d", "u", "m", "m", "y">>
dummyDir == <<"/", "d", "u", "m", "m", "y">>

\* the strings a user gives as alias, --add or --delete
Names == {Empty, <<"a">>, <<"a", "b">>}
\* the lines a user types at a resolver's prompt
Lines == Names \cup {<<"B">>, dummy}
\* the command texts a user types or gives as --command
Cmds == {Empty, <<"l", "s">>}
CmdArgs == {<<"l", "s">>}
\* directories the user works in
WorkDirs == {<<"/", "x">>, <<"/", "g">>}

-----------------------------------------------------------------------------
(* str operations *)

Ord(c) ==
    CASE c = "\n" -> 10
      [] c = "/" -> 47
      [] c = "B" -> 66
      [] c = "a" -> 97
      [] c = "b" -> 98
      [] c = "d" -> 100
      [] c = "g" -> 103
      [] c = "l" -> 108
      [] c = "m" -> 109
      [] c = "s" -> 115
      [] c = "u" -> 117
      [] c = "x" -> 120
      [] c = "y" -> 121

lower_char(c) == IF c = "B" THEN "b" ELSE c

lower(s) == [i \in 1..Len(s) |-> lower_char(s[i])]

startswith(x, text) ==
    /\ Len(text) <= Len(x)
    /\ SubSeq(x, 1, Len(text)) = text

RECURSIVE str_lt(_, _)
str_lt(s, t) ==
    IF t = <<>> THEN FALSE
    ELSE IF s = <<>> THEN TRUE
    ELSE IF Ord(Head(s)) # Ord(Head(t)) THEN Ord(Head(s)) < Ord(Head(t))
    ELSE str_lt(Tail(s), Tail(t))

-----------------------------------------------------------------------------
(* The store *)

Record(d, c) == [directory |-> d, command |-> c]

NoDb == [k \in {} |-> Record(Empty, Empty)]

Keys(d) == DOMAIN d

InDb(a, d) == a \in Keys(d)

DictUpdate(d, a, r) == [k \in Keys(d) \cup {a} |-> IF k = a THEN r ELSE d[k]]

\* mutant: pop drops every key the alias is a prefix of
DictPopPrefix(d, a) == [k \in {x \in Keys(d) : ~ startswith(x, a)} |-> d[k]]

DictPop(d, a) == [k \in Keys(d) \ {a} |-> d[k]]

SetCommand(d, a, c) == [d EXCEPT ![a] = Record(d[a].directory, c)]

DummyDb == [k \in {dummy} |-> Record(dummyDir, Empty)]

Saved(d) == [state |-> "ok", db |-> d]

NoFile == [exists |-> FALSE, text |-> Empty]

Written(text) == [exists |-> TRUE, text |-> text]

\* mutant: the keys sorted by code point, upper case first
RECURSIVE sorted_plain(_)
sorted_plain(S) ==
    IF S = {} THEN <<>>
    ELSE LET m == CHOOSE x \in S : \A y \in S \ {x} : ~ str_lt(y, x)
         IN  <<m>> \o sorted_plain(S \ {m})

\* sorted(self._db.keys(), key=str.lower).  Python's sort is stable: keys that
\* differ only in case keep the dict's order, which a function does not
\* carry; the alias sets used here hold no such pair.
RECURSIVE sorted_lower(_)
sorted_lower(S) ==
    IF S = {} THEN <<>>
    ELSE LET m == CHOOSE x \in S :
                      \A y \in S \ {x} : ~ str_lt(lower(y), lower(x))
         IN  <<m>> \o sorted_lower(S \ {m})

\* records = [[alias, directory, command] for alias in self._aliases]
BuildRecords(al, d) ==
    [i \in 1..Len(al) |-> <<al[i], d[al[i]].directory, d[al[i]].command>>]

\* list.remove(x): drop the first element equal to x
RECURSIVE list_remove(_, _)
list_remove(l, x) ==
    IF l = <<>> THEN <<>>
    ELSE IF Head(l) = x THEN Tail(l)
    ELSE <<Head(l)>> \o list_remove(Tail(l), x)

\* tmp_records = records; for record in records: if record[0] == alias:
\* tmp_records.remove(record).  tmp_records is the list being iterated: the
\* iterator is at index i and the list shrinks under it.
RECURSIVE remove_loop(_, _, _)
remove_loop(l, i, alias) ==
    IF i > Len(l) THEN l
    ELSE IF l[i][1] = alias THEN remove_loop(list_remove(l, l[i]), i + 1, alias)
    ELSE remove_loop(l, i + 1, alias)

RecordsAfterDelete(l, alias) == remove_loop(l, 1, alias)

\* Fcd.list_records: `first_char = record[0][0]` runs for every record and
\* raises IndexError on a record whose alias is the empty string
list_records_raises(recs) == \E i \in 1..Len(recs) : recs[i][1] = Empty

\* TabComplete.complete
Matches(al, text) == SelectSeq(al, LAMBDA x : startswith(x, text))

complete(al, text, state) == (Matches(al, text) \o <<None>>)[state + 1]

-----------------------------------------------------------------------------
(* Inputs *)

ls == <<"l", "s">>

Store0 ==
    [k \in {<<"a">>, <<"a", "b">>, <<"B">>} |->
        IF k = <<"a">> THEN Record(<<"/", "x">>, Empty)
        ELSE IF k = <<"B">> THEN Record(<<"/", "x">>, ls)
        ELSE Record(<<"/", "g">>, ls)]

InitFiles ==
    { [state |-> "absent", db |-> NoDb],
      [state |-> "corrupt", db |-> NoDb],
      Saved(Store0) }

NoArgs ==
    [alias |-> None, add |-> None, delete |-> None, command |-> None,
     version |-> FALSE, noargs |-> TRUE]

\* what argparse accepts: --add and --delete are mutually exclusive;
\* noargs is len(sys.argv) == 1
ArgSet ==
    { r \in [alias : Names \cup {None}, add : Names \cup {None},
             delete : Names \cup {None, True},
             command : CmdArgs \cup {None, True},
             version : BOOLEAN, noargs : BOOLEAN] :
        /\ ~ (r.add # None /\ r.delete # None)
        /\ r.noargs => /\ r.alias = None /\ r.add = None /\ r.delete = None
                       /\ r.command = None /\ ~ r.version }

\* history of a resolver loop: the alias handed to it, whether that was a
\* key of the store then, the calls of read_input so far, the line the user
\* typed last, and the alias the loop holds
Idle == [mode |-> "none", handed |-> Empty, exact |-> FALSE, reads |-> 0,
         line |-> Empty, state |-> "IDLE", alias |-> Empty]

Seeking(mode, a) ==
    [mode |-> mode, handed |-> a, exact |-> a \in DOMAIN db, reads |-> 0,
     line |-> a, state |-> "SEEKING", alias |-> a]

Resolved(r, a) == [r EXCEPT !.state = "RESOLVED", !.alias = a]

Prompts == {"alias_read", "delete_read", "select_read"}

-----------------------------------------------------------------------------
\* no completion under way
NoTab == [text |-> Empty, results |-> <<>>]

(* The initial state: a home directory before the first invocation *)

Init ==
    /\ file \in InitFiles
    /\ dirFile = NoFile
    /\ cmdFile = NoFile
    /\ disk = WorkDirs
    /\ cwd \in WorkDirs
    /\ pc = "main"
    /\ args = NoArgs
    /\ db = NoDb
    /\ aliases = <<>>
    /\ records = <<>>
    /\ partial = Empty
    /\ exitStatus = NoStatus
    /\ run = 1
    /\ nread = 0
    /\ resolver = Idle
    /\ pre = [db |-> NoDb, file |-> file]
    /\ ev = {}
    /\ typed = None
    /\ tab = NoTab

-----------------------------------------------------------------------------
(* File operations.  An I/O operation succeeds ("ok"), fails in open()     *)
(* leaving the file as it was ("open"), or fails after open(..., 'w') has  *)
(* truncated the file ("write").                                           *)

IOs == {"ok", "open", "write"}

Truncated == [state |-> "corrupt", db |-> NoDb]

\* mutant: the store is not written
save_nothing(d, f, io) == f

\* Db.save: the backing file afterwards
save(d, f, io) ==
    IF io = "ok" THEN Saved(d)
    ELSE IF io = "open" THEN f
    ELSE Truncated

\* open(name, 'w') ... file.write(text): the hand-off file afterwards
write_file(text, f, io) ==
    IF io = "ok" THEN Written(text)
    ELSE IF io = "open" THEN f
    ELSE Written(Empty)

\* mutant: the dummy store is built in memory and not saved
load_unsaved(f, io) ==
    IF f.state = "ok"
    THEN IF io = "ok"
         THEN [exit |-> FALSE, db |-> f.db, file |-> f]
         ELSE [exit |-> TRUE, db |-> NoDb, file |-> f]
    ELSE IF f.state = "corrupt"
    THEN [exit |-> TRUE, db |-> NoDb, file |-> f]
    ELSE [exit |-> FALSE, db |-> DummyDb, file |-> f]

\* Db.load
load(f, io) ==
    IF f.state = "ok"
    THEN IF io = "ok"
         THEN [exit |-> FALSE, db |-> f.db, file |-> f]
         ELSE [exit |-> TRUE, db |-> NoDb, file |-> f]
    ELSE IF f.state = "corrupt"
    THEN [exit |-> TRUE, db |-> NoDb, file |-> f]
    ELSE [exit |-> io # "ok", db |-> DummyDb, file |-> save(DummyDb, f, io)]

\* Fcd.clean_up; fail names the os.remove that raises OSError
clean_up(dF, cF, fail) ==
    IF fail = "dir" /\ dF.exists
    THEN [dir |-> dF, cmd |-> cF, exit |-> TRUE]
    ELSE IF fail = "cmd" /\ cF.exists
    THEN [dir |-> NoFile, cmd |-> cF, exit |-> TRUE]
    ELSE [dir |-> NoFile, cmd |-> NoFile, exit |-> FALSE]

isdir(d, dsk) == d \in dsk

dir_path(d, alias) == d[alias].directory \o NL

cmd_line(d, alias) == d[alias].command \o NL

\* mutant: the command file is written whether or not there is a command
has_command_always(d, alias) == TRUE

has_command(d, alias) == d[alias].command # Empty

\* mutant: the directory file is written before the directory is checked
save_for_later_execution_unchecked(d, alias, dsk, dF, cF, ioD, ioC) ==
    IF isdir(d[alias].directory, dsk)
    THEN [dir |-> write_file(dir_path(d, alias), dF, ioD), cmd |-> cF,
          exit |-> NoStatus, tag |-> "handoff"]
    ELSE [dir |-> write_file(dir_path(d, alias), dF, "ok"), cmd |-> cF,
          exit |-> 1, tag |-> "missing_dir"]

\* Fcd.save_for_later_execution
save_for_later_execution(d, alias, dsk, dF, cF, ioD, ioC) ==
    IF isdir(d[alias].directory, dsk)
    THEN IF ioD # "ok"
         THEN [dir |-> write_file(dir_path(d, alias), dF, ioD), cmd |-> cF,
               exit |-> 1, tag |-> "io_error"]
         ELSE IF has_command(d, alias)
         THEN [dir |-> write_file(dir_path(d, alias), dF, ioD),
               cmd |-> write_file(cmd_line(d, alias), cF, ioC),
               exit |-> IF ioC = "ok" THEN NoStatus ELSE 1,
               tag |-> IF ioC = "ok" THEN "handoff" ELSE "io_error"]
         ELSE [dir |-> write_file(dir_path(d, alias), dF, ioD), cmd |-> cF,
               exit |-> NoStatus, tag |-> "handoff"]
    ELSE [dir |-> dF, cmd |-> cF, exit |-> 1, tag |-> "missing_dir"]

-----------------------------------------------------------------------------
(* main: Fcd(), clean_up, parse_args *)

Fcd_init ==
    /\ pc = "main"
    /\ \E io \in IOs :
         LET r == load(file, io) IN
         /\ file' = r.file
         /\ IF r.exit
            THEN /\ pc' = "exit"
                 /\ exitStatus' = 1
                 /\ ev' = ev \cup {"load_failed"}
                 /\ UNCHANGED <<db, aliases, pre>>
            ELSE /\ pc' = "clean_up"
                 /\ db' = r.db
                 /\ aliases' = sorted_lower(Keys(r.db))
                 /\ pre' = [db |-> r.db, file |-> r.file]
                 /\ UNCHANGED <<exitStatus, ev>>
    /\ UNCHANGED <<typed, tab>>
    /\ UNCHANGED <<dirFile, cmdFile, disk, cwd, args, records, partial, run,
                   nread, resolver>>

main_clean_up ==
    /\ pc = "clean_up"
    /\ \E fail \in {"none", "dir", "cmd"} :
         LET r == clean_up(dirFile, cmdFile, fail) IN
         /\ dirFile' = r.dir
         /\ cmdFile' = r.cmd
         /\ IF r.exit
            THEN /\ pc' = "exit"
                 /\ exitStatus' = 1
                 /\ ev' = ev \cup {"clean_up_failed"}
            ELSE /\ pc' = "parse_args"
                 /\ UNCHANGED <<exitStatus, ev>>
    /\ UNCHANGED <<typed, tab>>
    /\ UNCHANGED <<file, disk, cwd, args, db, aliases, records, partial, run,
                   nread, resolver, pre>>

\* parse_args, the --version exit, and the head of args_handler, which
\* builds `records`
main_parse_args ==
    /\ pc = "parse_args"
    /\ \E a \in ArgSet :
         /\ args' = a
         /\ IF a.version
            THEN /\ pc' = "exit"
                 /\ exitStatus' = 0
                 /\ ev' = ev \cup {"version"}
                 /\ UNCHANGED records
            ELSE /\ pc' = "alias_branch"
                 /\ records' = BuildRecords(aliases, db)
                 /\ UNCHANGED <<exitStatus, ev>>
    /\ UNCHANGED <<typed, tab>>
    /\ UNCHANGED <<file, dirFile, cmdFile, disk, cwd, db, aliases, partial,
                   run, nread, resolver, pre>>

-----------------------------------------------------------------------------
(* args_handler: the three dispatch branches and their prompts *)

\* mutant: every exit reports success
ExitZero(status, tag) ==
    /\ pc' = "exit"
    /\ exitStatus' = 0
    /\ ev' = ev \cup {tag}

Exit(status, tag) ==
    /\ pc' = "exit"
    /\ exitStatus' = status
    /\ ev' = ev \cup {tag}

Goto(label) ==
    /\ pc' = label
    /\ UNCHANGED <<exitStatus, ev>>

GotoEv(label, tag) ==
    /\ pc' = label
    /\ exitStatus' = exitStatus
    /\ ev' = ev \cup {tag}

\* mutant: a do-while loop, which prompts before it tests
first_prompt_always(alias, d) == TRUE

\* `if alias in self._db: ... else: ... while alias not in self._db:` on
\* entry of a resolver: a prompt is issued first iff the alias is no key
first_prompt(alias, d) == ~ InDb(alias, d)

\* `while alias not in self._db` after a line was read
loop_again(alias, d) == ~ InDb(alias, d)

\* mutant: read_input returns the text it seeded the prompt with
read_input_seed(hook_message, line) == hook_message

\* Fcd.read_input: the prompt is seeded with hook_message, the user edits it
\* to line, input() returns the line
read_input(hook_message, line) == line

\* read_input was called, the user typed line, the loop now holds alias
AfterRead(r, line, alias) ==
    [r EXCEPT !.reads = @ + 1, !.line = line, !.alias = alias]

\* the tail of alias_handler: save_for_later_execution(alias)
FinishCd(alias, r) ==
    \E ioD \in IOs, ioC \in IOs :
        LET s == save_for_later_execution(db, alias, disk, dirFile, cmdFile,
                                          ioD, ioC) IN
        /\ dirFile' = s.dir
        /\ cmdFile' = s.cmd
        /\ resolver' = r
        /\ IF s.exit = NoStatus
           THEN GotoEv("add_delete_branch", s.tag)
           ELSE Exit(s.exit, s.tag)

\* args_handler line 470
resolve_dispatched(a) == a.alias # None \/ a.noargs

\* args_handler lines 469-474 and alias_handler up to its first prompt
args_alias ==
    /\ pc = "alias_branch"
    /\ pre' = [db |-> db, file |-> file]
    /\ LET alias == IF args.noargs THEN Empty ELSE args.alias IN
       IF resolve_dispatched(args)
       THEN /\ partial' = alias
            /\ IF first_prompt(alias, db)
               THEN /\ IF list_records_raises(records)
                       THEN Exit(1, "index_error")
                       ELSE Goto("alias_read")
                    /\ resolver' = Seeking("cd", alias)
                    /\ UNCHANGED <<dirFile, cmdFile>>
               ELSE FinishCd(alias, Resolved(Seeking("cd", alias), alias))
       ELSE /\ Goto("add_delete_branch")
            /\ UNCHANGED <<dirFile, cmdFile, partial, resolver>>
    /\ UNCHANGED <<typed, tab>>
    /\ UNCHANGED <<file, disk, cwd, args, db, aliases, records, run, nread>>

\* alias = self.read_input(alias) in alias_handler, and what follows it
alias_read ==
    /\ pc = "alias_read"
    /\ nread < MaxInputs
    /\ \E line \in Lines :
         LET alias == read_input(partial, line) IN
         /\ partial' = alias
         /\ nread' = nread + 1
         /\ IF loop_again(alias, db)
            THEN /\ IF list_records_raises(records)
                    THEN Exit(1, "index_error")
                    ELSE Goto("alias_read")
                 /\ resolver' = AfterRead(resolver, line, alias)
                 /\ UNCHANGED <<dirFile, cmdFile>>
            ELSE FinishCd(alias,
                          Resolved(AfterRead(resolver, line, alias), alias))
    /\ UNCHANGED <<typed, tab>>
    /\ UNCHANGED <<file, disk, cwd, args, db, aliases, records, run, pre>>

\* mutant: the new record keeps no directory
add_record_no_directory(d, arg_add, dir) ==
    DictUpdate(d, arg_add, Record(Empty, Empty))

\* Fcd.add_handler: the store afterwards
add_record(d, arg_add, dir) == DictUpdate(d, arg_add, Record(dir, Empty))

\* mutant: add overwrites an existing alias
add_refused_never(arg_add, d) == FALSE

add_refused(arg_add, d) == InDb(arg_add, d)

args_add ==
    /\ pc = "add_delete_branch"
    /\ args.add # None
    /\ pre' = [db |-> db, file |-> file]
    /\ IF add_refused(args.add, db)
       THEN /\ Exit(1, "alias_exists")
            /\ UNCHANGED <<db, file>>
       ELSE \E io \in IOs :
            /\ db' = add_record(db, args.add, cwd)
            /\ file' = save(db', file, io)
            /\ IF io = "ok"
               THEN GotoEv("command_branch", "added")
               ELSE Exit(1, "io_error")
    /\ UNCHANGED <<typed, tab>>
    /\ UNCHANGED <<dirFile, cmdFile, disk, cwd, args, aliases, records,
                   partial, run, nread, resolver>>

\* the tail of delete_handler: pop, patch `records`, save
DoDelete(alias, r) ==
    \E io \in IOs :
        /\ db' = DictPop(db, alias)
        /\ records' = RecordsAfterDelete(records, alias)
        /\ file' = save(db', file, io)
        /\ resolver' = r
        /\ IF io = "ok"
           THEN GotoEv("command_branch", "deleted")
           ELSE Exit(1, "io_error")

\* delete_handler up to its first prompt.  isinstance(True, str) is False:
\* the handler raises ValueError, which nothing catches
args_delete ==
    /\ pc = "add_delete_branch"
    /\ args.add = None
    /\ args.delete # None
    /\ pre' = [db |-> db, file |-> file]
    /\ IF ~ IsStr(args.delete)
       THEN /\ Exit(1, "value_error")
            /\ UNCHANGED <<db, file, records, partial, resolver>>
       ELSE /\ partial' = args.delete
            /\ IF first_prompt(args.delete, db)
               THEN /\ IF list_records_raises(records)
                       THEN Exit(1, "index_error")
                       ELSE Goto("delete_read")
                    /\ resolver' = Seeking("delete", args.delete)
                    /\ UNCHANGED <<db, file, records>>
               ELSE DoDelete(args.delete,
                             Resolved(Seeking("delete", args.delete),
                                      args.delete))
    /\ UNCHANGED <<typed, tab>>
    /\ UNCHANGED <<dirFile, cmdFile, disk, cwd, args, aliases, run, nread>>

delete_read ==
    /\ pc = "delete_read"
    /\ nread < MaxInputs
    /\ \E line \in Lines :
         LET alias == read_input(partial, line) IN
         /\ partial' = alias
         /\ nread' = nread + 1
         /\ IF loop_again(alias, db)
            THEN /\ IF list_records_raises(records)
                    THEN Exit(1, "index_error")
                    ELSE Goto("delete_read")
                 /\ resolver' = AfterRead(resolver, line, alias)
                 /\ UNCHANGED <<db, file, records>>
            ELSE DoDelete(alias,
                          Resolved(AfterRead(resolver, line, alias), alias))
    /\ UNCHANGED <<typed, tab>>
    /\ UNCHANGED <<dirFile, cmdFile, disk, cwd, args, aliases, run, pre>>

args_no_add_delete ==
    /\ pc = "add_delete_branch"
    /\ args.add = None
    /\ args.delete = None
    /\ Goto("command_branch")
    /\ UNCHANGED <<typed, tab>>
    /\ UNCHANGED <<file, dirFile, cmdFile, disk, cwd, args, db, aliases,
                   records, partial, run, nread, resolver, pre>>

\* mutant: the alias just added is not taken as the target
command_target_never(a, d) == FALSE

\* command_handler line 409: the target taken without a resolver
command_target(a, d) == InDb(a.add, d)

\* command_handler lines 426-429: set the command, save; then args_handler
\* and main return
SetCmd(alias, cmd) ==
    \E io \in IOs :
        /\ db' = SetCommand(db, alias, cmd)
        /\ file' = save(db', file, io)
        /\ IF io = "ok"
           THEN Exit(0, "cmd_set")
           ELSE Exit(1, "io_error")

\* mutant: the old command is cleared and saved before the new one is asked
CmdStageClearsFirst(alias) ==
    /\ partial' = alias
    /\ IF args.command = True
       THEN /\ Goto("cmd_read")
            /\ db' = SetCommand(db, alias, Empty)
            /\ file' = Saved(db')
       ELSE SetCmd(alias, args.command)

\* command_handler lines 420-424
CmdStage(alias) ==
    /\ partial' = alias
    /\ IF args.command = True
       THEN /\ Goto("cmd_read")
            /\ UNCHANGED <<db, file>>
       ELSE SetCmd(alias, args.command)

\* mutant: the command branch runs whether or not --delete was given
command_dispatched_with_delete(a) == a.command # None

\* args_handler line 482
command_dispatched(a) == a.command # None /\ a.delete = None

\* args_handler line 482 and command_handler up to its first prompt; the
\* listing of line 413 comes before the loop's test
args_command ==
    /\ pc = "command_branch"
    /\ pre' = [db |-> db, file |-> file]
    /\ IF command_dispatched(args)
       THEN IF command_target(args, db)
            THEN /\ CmdStage(args.add)
                 /\ UNCHANGED resolver
            ELSE IF list_records_raises(records)
            THEN /\ Exit(1, "index_error")
                 /\ partial' = Empty
                 /\ resolver' = Seeking("select", Empty)
                 /\ UNCHANGED <<db, file>>
            ELSE IF first_prompt(Empty, db)
            THEN /\ Goto("select_read")
                 /\ partial' = Empty
                 /\ resolver' = Seeking("select", Empty)
                 /\ UNCHANGED <<db, file>>
            ELSE /\ CmdStage(Empty)
                 /\ resolver' = Resolved(Seeking("select", Empty), Empty)
       ELSE /\ Exit(0, "done")
            /\ UNCHANGED <<db, file, partial, resolver>>
    /\ UNCHANGED <<typed, tab>>
    /\ UNCHANGED <<dirFile, cmdFile, disk, cwd, args, aliases, records, run,
                   nread>>

select_read ==
    /\ pc = "select_read"
    /\ nread < MaxInputs
    /\ \E line \in Lines :
         LET alias == read_input(partial, line) IN
         /\ nread' = nread + 1
         /\ IF loop_again(alias, db)
            THEN /\ IF list_records_raises(records)
                    THEN Exit(1, "index_error")
                    ELSE Goto("select_read")
                 /\ partial' = alias
                 /\ resolver' = AfterRead(resolver, line, alias)
                 /\ UNCHANGED <<db, file>>
            ELSE /\ CmdStage(alias)
                 /\ resolver' =
                        Resolved(AfterRead(resolver, line, alias), alias)
    /\ UNCHANGED <<typed, tab>>
    /\ UNCHANGED <<dirFile, cmdFile, disk, cwd, args, aliases, records, run,
                   pre>>

\* cmd = input('Provide command to be added or updated: ')
cmd_read ==
    /\ pc = "cmd_read"
    /\ nread < MaxInputs
    /\ \E text \in Cmds :
         /\ nread' = nread + 1
         /\ typed' = text
         /\ SetCmd(partial, text)
    /\ UNCHANGED <<dirFile, cmdFile, disk, cwd, args, aliases, records,
                   partial, run, resolver, pre, tab>>

\* except KeyboardInterrupt: sys.exit(1), while input() blocks
interrupt ==
    /\ pc \in Prompts \cup {"cmd_read"}
    /\ Exit(1, "interrupt")
    /\ UNCHANGED <<typed, tab>>
    /\ UNCHANGED <<file, dirFile, cmdFile, disk, cwd, args, db, aliases,
                   records, partial, run, nread, resolver, pre>>

-----------------------------------------------------------------------------
(* Between invocations *)

\* the shell starts fcd again, in some existing directory
next_run ==
    /\ pc = "exit"
    /\ run < MaxRuns
    /\ run' = run + 1
    /\ cwd' \in disk
    /\ pc' = "main"
    /\ args' = NoArgs
    /\ db' = NoDb
    /\ aliases' = <<>>
    /\ records' = <<>>
    /\ partial' = Empty
    /\ exitStatus' = NoStatus
    /\ nread' = 0
    /\ resolver' = Idle
    /\ pre' = [db |-> NoDb, file |-> file]
    /\ ev' = {}
    /\ typed' = None
    /\ UNCHANGED <<file, dirFile, cmdFile, disk, tab>>

\* a directory is removed from disk
rmdir ==
    /\ pc = "exit"
    /\ run < MaxRuns
    /\ \E d \in disk :
         /\ disk \ {d} # {}
         /\ disk' = disk \ {d}
    /\ UNCHANGED <<typed, tab>>
    /\ UNCHANGED <<file, dirFile, cmdFile, cwd, pc, args, db, aliases,
                   records, partial, exitStatus, run, nread, resolver, pre, ev>>

Next ==
    \/ Fcd_init
    \/ main_clean_up
    \/ main_parse_args
    \/ args_alias
    \/ alias_read
    \/ args_add
    \/ args_delete
    \/ delete_read
    \/ args_no_add_delete
    \/ args_command
    \/ select_read
    \/ cmd_read
    \/ interrupt
    \/ next_run
    \/ rmdir

Spec == Init /\ [][Next]_vars

-----------------------------------------------------------------------------
(* Properties *)

HandedOff == pc = "add_delete_branch" /\ "handoff" \in ev

\* C1: when the change-directory resolver has ended in RESOLVED(a) and the
\* directory of a exists, the directory hand-off file holds exactly that
\* directory and one newline, and the command hand-off file exists iff the
\* command of a is non-empty, holding exactly the command and one newline.
C1_HandOff ==
    HandedOff =>
        LET rec == db[resolver.alias] IN
        /\ resolver.mode = "cd"
        /\ resolver.state = "RESOLVED"
        /\ rec.directory \in disk
        /\ dirFile.exists
        /\ dirFile.text = rec.directory \o <<"\n">>
        /\ cmdFile.exists <=> rec.command # <<>>
        /\ cmdFile.exists => cmdFile.text = rec.command \o <<"\n">>

\* a second invocation resolved a record with a command, after a prompt
C1_Witness ==
    /\ HandedOff
    /\ run = 2
    /\ resolver.reads > 0
    /\ cmdFile.exists

C1_WitnessNoCommand ==
    /\ HandedOff
    /\ run = 2
    /\ ~ cmdFile.exists

\* C2: whatever ends an invocation that made no hand-off, neither hand-off
\* file is present at its end: the files of a prior invocation were removed
\* before anything could end the run.  (An I/O failure of the removal itself,
\* or of a hand-off write, aside.)
C2_NoResidue ==
    (/\ pc = "exit"
     /\ ev \cap {"handoff", "io_error", "clean_up_failed"} = {})
        => (~ dirFile.exists /\ ~ cmdFile.exists)

\* C3: a change-directory or delete resolver that was handed an exact key
\* is RESOLVED with that key and has never called read_input.
C3_ZeroInteraction ==
    (resolver.mode \in {"cd", "delete"} /\ resolver.exact) =>
        /\ resolver.reads = 0
        /\ resolver.state = "RESOLVED"
        /\ resolver.alias = resolver.handed
        /\ pc \notin {"alias_read", "delete_read"}

C3_Witness ==
    /\ resolver.mode = "delete"
    /\ resolver.exact
    /\ "deleted" \in ev

\* C4: a resolver at its prompt moves only by reading a line, which becomes
\* the partial: it stays at the same prompt iff the line is no key of the
\* store, and otherwise is RESOLVED with the line, a key; or by interrupt.
\* A line can be read as long as the input bound allows it; a resolver that
\* is RESOLVED without a read holds the alias it was handed, an exact key.
C4_Step ==
    pc \in Prompts =>
        \/ /\ "interrupt" \in ev'
           /\ pc' = "exit"
        \/ /\ resolver'.reads = resolver.reads + 1
           /\ resolver'.alias = resolver'.line
           /\ partial' = resolver'.line
           /\ resolver'.mode = resolver.mode
           /\ db = pre.db
           /\ IF resolver'.line \in DOMAIN db
              THEN resolver'.state = "RESOLVED"
              ELSE /\ resolver'.state = "SEEKING"
                   /\ pc' = pc
                   /\ UNCHANGED <<db, file, dirFile, cmdFile, records>>

C4_State ==
    /\ pc \in Prompts =>
          /\ resolver.state = "SEEKING"
          /\ resolver.alias = partial
          /\ partial \notin DOMAIN db
          /\ nread < MaxInputs =>
                ENABLED (alias_read \/ delete_read \/ select_read)
    /\ (resolver.state = "RESOLVED" /\ resolver.reads = 0) =>
          (resolver.alias = resolver.handed /\ resolver.exact)
    /\ resolver.state = "SEEKING" => (pc \in Prompts \/ "interrupt" \in ev)

C4_ResolverLoop == [][C4_Step]_vars /\ []C4_State

\* a resolver is RESOLVED by the second line read, the first being no key
C4_Witness ==
    /\ resolver.state = "RESOLVED"
    /\ resolver.reads = 2
    /\ resolver.alias # resolver.handed

MissingDirectory == "missing_dir" \in ev

\* C5: resolving an alias whose directory does not exist ends the invocation
\* with exit status 1, leaves the store and the backing file as they were
\* and the record in place, and writes neither hand-off file.
C5_MissingDirectory ==
    MissingDirectory =>
        /\ pc = "exit"
        /\ exitStatus = 1
        /\ resolver.mode = "cd"
        /\ resolver.state = "RESOLVED"
        /\ resolver.alias \in DOMAIN db
        /\ db[resolver.alias].directory \notin disk
        /\ db = pre.db
        /\ file = pre.file
        /\ file = [state |-> "ok", db |-> db]
        /\ ~ dirFile.exists
        /\ ~ cmdFile.exists

\* a second invocation; the directory was added as a working directory by
\* the first and removed from disk since
C5_Witness ==
    /\ MissingDirectory
    /\ run = 2
    /\ db[resolver.alias].directory \in WorkDirs
    /\ db # Store0

AddRefused == "alias_exists" \in ev

Added == pc = "command_branch" /\ "added" \in ev

\* C6: add of an alias that is a key ends the invocation with exit status 1
\* and leaves the store and the backing file as they were; an add that
\* goes through was of an alias that was no key.
C6_AddRefuses ==
    /\ AddRefused =>
          /\ pc = "exit"
          /\ exitStatus = 1
          /\ args.add \in DOMAIN pre.db
          /\ db = pre.db
          /\ file = pre.file
    /\ Added => args.add \notin DOMAIN pre.db

C6_Witness ==
    /\ AddRefused
    /\ Cardinality(DOMAIN db) > 1

\* C7: add of an alias that is no key inserts exactly the record
\* {directory: cwd, command: ""} under that alias, leaves every other record
\* as it was, and the backing file holds the resulting store.
C7_AddInserts ==
    Added =>
        /\ args.add \notin DOMAIN pre.db
        /\ DOMAIN db = DOMAIN pre.db \cup {args.add}
        /\ db[args.add] = [directory |-> cwd, command |-> <<>>]
        /\ \A k \in DOMAIN pre.db : db[k] = pre.db[k]
        /\ file = [state |-> "ok", db |-> db]

C7_Witness ==
    /\ Added
    /\ Cardinality(DOMAIN db) > 2
    /\ \E k \in DOMAIN db : db[k].command # <<>>

Deleted == pc = "command_branch" /\ "deleted" \in ev

\* C8: a completed delete of alias a removes exactly one record: the key
\* set is the previous key set minus a, every other record is as it was,
\* and the backing file holds that store.
C8_DeleteRemovesOne ==
    Deleted =>
        /\ resolver.mode = "delete"
        /\ resolver.alias \in DOMAIN pre.db
        /\ DOMAIN db = DOMAIN pre.db \ {resolver.alias}
        /\ \A k \in DOMAIN db : db[k] = pre.db[k]
        /\ file = [state |-> "ok", db |-> db]

\* the deleted alias is a proper prefix of a key that stays
C8_Witness ==
    /\ Deleted
    /\ resolver.reads > 0
    /\ \E k \in DOMAIN db : startswith(k, resolver.alias)

InSeq(x, l) == \E i \in 1..Len(l) : l[i] = x

\* C9: after a completed delete of alias a, a is in neither listing derived
\* from the store: not in `records`, not in the completer's alias list.
C9_AbsentFromListings ==
    "deleted" \in ev =>
        /\ \A i \in 1..Len(records) : records[i][1] # resolver.alias
        /\ ~ InSeq(resolver.alias, aliases)

DeleteHandlerEntered == resolver.mode = "delete" \/ "value_error" \in ev

\* C10: once delete_handler is entered, its resolver is in delete mode,
\* seeded with the argument (empty text for a bare --delete); the handler is
\* at its prompt while the partial is no key, and otherwise has deleted the
\* chosen key and saved the store (an exact argument: without any prompt),
\* unless an interrupt or an I/O error has ended it.
C10_DeleteResolves ==
    DeleteHandlerEntered =>
        /\ args.delete # None
        /\ resolver.mode = "delete"
        /\ resolver.handed = IF args.delete = True THEN <<>> ELSE args.delete
        /\ \/ pc = "delete_read" /\ partial \notin DOMAIN db
           \/ "interrupt" \in ev
           \/ "io_error" \in ev
           \/ /\ "deleted" \in ev
              /\ resolver.state = "RESOLVED"
              /\ resolver.alias \notin DOMAIN db
              /\ file = [state |-> "ok", db |-> db]
              /\ resolver.exact => resolver.reads = 0

-----------------------------------------------------------------------------
(* The completer on its own: an Fcd instance built on a store, and         *)
(* readline calling complete(text, 0), complete(text, 1), ... for one text *)
(* until the call returns None.                                            *)

\* keys of the stores the completer is built on
CompleterNames == {Empty, <<"a">>, <<"a", "b">>, <<"B">>, <<"b", "a">>}

\* texts before the cursor when TAB is pressed
CompleterTexts == {Empty, <<"a">>, <<"b">>, <<"B">>, <<"a", "b">>}

\* Fcd.__init__ on a loaded store, the process blocked in a prompt
InitComplete ==
    /\ \E A \in SUBSET CompleterNames :
         /\ db = [k \in A |-> Record(dummyDir, Empty)]
         /\ aliases = sorted_lower(A)
    /\ file = Saved(db)
    /\ dirFile = NoFile
    /\ cmdFile = NoFile
    /\ disk = WorkDirs
    /\ cwd = <<"/", "x">>
    /\ pc = "alias_read"
    /\ args = NoArgs
    /\ records = BuildRecords(aliases, db)
    /\ partial = Empty
    /\ exitStatus = NoStatus
    /\ run = 1
    /\ nread = 0
    /\ resolver = Seeking("cd", Empty)
    /\ pre = [db |-> db, file |-> file]
    /\ ev = {}
    /\ typed = None
    /\ \E text \in CompleterTexts : tab = [text |-> text, results |-> <<>>]

\* readline calls the completer with the next state until it returns None
readline_complete ==
    /\ pc = "alias_read"
    /\ IF tab.results = <<>> THEN TRUE
       ELSE tab.results[Len(tab.results)] # None
    /\ LET state == Len(tab.results)
       IN  tab' = [tab EXCEPT
                     !.results = Append(@, complete(aliases, tab.text, state))]
    /\ UNCHANGED <<file, dirFile, cmdFile, disk, cwd, pc, args, db, aliases,
                   records, partial, exitStatus, run, nread, resolver, pre,
                   ev, typed>>

NextComplete == readline_complete

SpecComplete == InitComplete /\ [][NextComplete]_vars

IsPrefix(p, a) == Len(p) <= Len(a) /\ \A i \in 1..Len(p) : a[i] = p[i]

Candidates == {a \in DOMAIN db : IsPrefix(tab.text, a)}

CompletionDone ==
    IF tab.results = <<>> THEN FALSE
    ELSE tab.results[Len(tab.results)] = None

\* C16: the successive calls complete(p, 0), complete(p, 1), ... return
\* exactly the aliases that start with p (case-sensitive), each once, in
\* ascending order of the lower-cased alias, and the call with state equal
\* to the number of matches returns None.
C16_CompleteEnumerates ==
    LET r == tab.results
        n == Cardinality(Candidates)
    IN  /\ Len(r) <= n + 1
        /\ \A i \in 1..Len(r) : (i <= n) <=> (r[i] \in Candidates)
        /\ \A i \in 1..Len(r) : (i = n + 1) <=> (r[i] = None)
        /\ \A i, j \in 1..Len(r) :
              (i < j /\ j <= n) =>
                  /\ r[i] # r[j]
                  /\ ~ str_lt(lower(r[j]), lower(r[i]))
        /\ CompletionDone =>
              /\ Len(r) = n + 1
              /\ {r[i] : i \in 1..n} = Candidates

\* a completion that lists the upper-case alias between lower-case ones
C16_Witness ==
    /\ CompletionDone
    /\ \E i \in 2..(Len(tab.results) - 2) :
          /\ tab.results[i - 1] = <<"a", "b">>
          /\ tab.results[i] = <<"B">>
          /\ tab.results[i + 1] = <<"b", "a">>

CommandOnAdded == "added" \in ev /\ args.command # None

\* C11: when add=a went through and the command option is given, the
\* command (the literal text, or the one line typed when the option is the
\* interactive marker) is set on record a with no select-mode resolver;
\* only the command field of a changes and the backing file holds the store.
C11_CommandOnAdded ==
    CommandOnAdded =>
        /\ resolver.mode # "select"
        /\ pc \in {"command_branch", "cmd_read", "exit"}
        /\ pc = "cmd_read" =>
              /\ args.command = True
              /\ partial = args.add
              /\ db = pre.db
              /\ file = pre.file
        /\ pc = "exit" => ev \cap {"cmd_set", "io_error", "interrupt"} # {}
        /\ (typed # None) => args.command = True
        /\ "cmd_set" \in ev =>
              LET text == IF args.command = True THEN typed ELSE args.command
              IN  /\ text # None
                  /\ DOMAIN db = DOMAIN pre.db
                  /\ db[args.add] =
                        [directory |-> pre.db[args.add].directory,
                         command |-> text]
                  /\ db[args.add].directory = cwd
                  /\ \A k \in DOMAIN db \ {args.add} : db[k] = pre.db[k]
                  /\ file = [state |-> "ok", db |-> db]
                  /\ exitStatus = 0

\* the command was typed at the prompt, for an alias added to other records
C11_Witness ==
    /\ CommandOnAdded
    /\ "cmd_set" \in ev
    /\ typed = <<"l", "s">>
    /\ Cardinality(DOMAIN db) > 1

ExactAliasWithCommand ==
    /\ args.alias # None
    /\ args.alias \in DOMAIN db
    /\ args.add = None
    /\ args.delete = None
    /\ args.command # None

\* C12: when the alias argument is an exact key a and the command option is
\* given (no add, no delete), no select-mode resolver runs and the command
\* is set on the record of a.
C12_CommandOnExactAlias ==
    ExactAliasWithCommand =>
        /\ resolver.mode # "select"
        /\ pc # "select_read"
        /\ "cmd_set" \in ev => partial = args.alias

Dispatched ==
    \/ pc \in {"alias_read", "add_delete_branch", "delete_read",
               "command_branch", "select_read", "cmd_read"}
    \/ /\ pc = "exit"
       /\ ev \cap {"load_failed", "clean_up_failed", "version"} = {}

CdResolverRan ==
    resolver.mode = "cd" \/ "handoff" \in ev \/ "missing_dir" \in ev

\* C13: the change-directory resolver is dispatched exactly when no option
\* at all is given, or an alias argument is given and the delete flag is not
\* set; with the delete flag set it never runs and no hand-off file is
\* written.
C13_ResolveDispatch ==
    Dispatched =>
        /\ CdResolverRan <=>
              (args.noargs \/ (args.alias # None /\ args.delete = None))
        /\ args.delete # None =>
              (~ CdResolverRan /\ ~ dirFile.exists /\ ~ cmdFile.exists)

Interrupted == "interrupt" \in ev

\* C14: an interrupt at a prompt (change-directory, delete, select, command
\* text) ends the invocation with a non-zero exit status; the store and the
\* backing file are as they were when the dispatch branch of the prompt
\* began.
C14_Interrupt ==
    Interrupted =>
        /\ pc = "exit"
        /\ exitStatus # 0
        /\ exitStatus # NoStatus
        /\ file = pre.file
        /\ db = pre.db

\* interrupted at the command prompt, after an add of the same invocation
C14_Witness ==
    /\ Interrupted
    /\ "added" \in ev
    /\ args.command = True
    /\ \E k \in DOMAIN db : db[k].command # <<>>

Blocked == pc \in {"alias_read", "delete_read", "select_read", "cmd_read"}

\* C15: whenever the process blocks on input or has exited, I/O failures
\* and a failed load aside, the backing file holds exactly the in-memory
\* store.
C15_SavedAfterEachMutation ==
    ((Blocked \/ pc = "exit") /\ ev \cap {"io_error", "load_failed"} = {})
        => file = [state |-> "ok", db |-> db]

\* blocked at the command prompt after an add
C15_Witness ==
    /\ pc = "cmd_read"
    /\ "added" \in ev
    /\ Cardinality(DOMAIN db) > 2

DummyStore ==
    (<<"d", "u", "m", "m", "y">> :>
        [directory |-> <<"/", "d", "u", "m", "m", "y">>, command |-> <<>>])

LoadReturns == pc = "main" /\ pc' = "clean_up"

\* C17: when the backing file is absent at process start and load returns,
\* the store is exactly {"dummy": {directory: "/dummy", command: ""}} and
\* the backing file holds it; in an invocation that got past load the
\* backing file exists, whatever is dispatched afterwards.
C17_FirstLoad ==
    /\ [][(LoadReturns /\ file.state = "absent") =>
              (db' = DummyStore /\ file' = [state |-> "ok", db |-> DummyStore])
         ]_vars
    /\ []((pc # "main" /\ "load_failed" \notin ev) => file.state # "absent")

\* the first invocation in an empty home directory, ended after an add
C17_Witness ==
    /\ run = 1
    /\ pc = "exit"
    /\ "added" \in ev
    /\ <<"d", "u", "m", "m", "y">> \in DOMAIN db
    /\ file.state = "ok"

\* C18: every alias key of the store, in memory and in the backing file, is
\* a non-empty string.
C18_NonEmptyAliases ==
    /\ \A k \in DOMAIN db : k # <<>>
    /\ \A k \in DOMAIN file.db : k # <<>>

ReportedErrors ==
    {"missing_dir", "alias_exists", "io_error", "load_failed",
     "clean_up_failed"}

Failures == ReportedErrors \cup {"interrupt", "value_error", "index_error"}

\* C19: the process exits with status 0 when it printed the version or ended
\* with no error, with status 1 on a reported error (missing directory,
\* duplicate alias, I/O failure, unparsable store) and with a non-zero
\* status on interrupt.
C19_ExitStatus ==
    /\ pc = "exit" <=> exitStatus # NoStatus
    /\ pc = "exit" =>
          /\ exitStatus \in {0, 1}
          /\ "version" \in ev => exitStatus = 0
          /\ ev \cap Failures = {} => exitStatus = 0
          /\ ev \cap ReportedErrors # {} => exitStatus = 1
          /\ "interrupt" \in ev => exitStatus # 0

\* an invocation that added a record and then failed on I/O
C19_Witness ==
    /\ pc = "exit"
    /\ exitStatus = 1
    /\ "added" \in ev
    /\ "io_error" \in ev

CommandWithDelete == args.delete # None /\ args.command # None

\* C20 as stated: with the command and the delete option together the
\* set-command branch runs after the delete branch with a resolution of its
\* own, so an invocation that ends well has set a command.
C20_BothBranchesRun ==
    (CommandWithDelete /\ ~ args.version /\ pc = "exit" /\ exitStatus = 0)
        => "cmd_set" \in ev

\* C20: with the command and the delete option together the set-command
\* branch is not dispatched: no select-mode resolver runs, no command text is
\* asked for and no command is set.
C20_DeleteSkipsCommand ==
    CommandWithDelete =>
        /\ resolver.mode # "select"
        /\ pc \notin {"select_read", "cmd_read"}
        /\ "cmd_set" \notin ev
        /\ typed = None

\* a delete that went through with the command option given
C20_Witness ==
    /\ CommandWithDelete
    /\ "deleted" \in ev
    /\ pc = "exit"
    /\ exitStatus = 0

AliasSet == {aliases[i] : i \in 1..Len(aliases)}

\* C21: at every prompt backed by the completer (change-directory, delete,
\* select) the completer's candidates are exactly the keys of the store in
\* memory, for every text completed; no add, delete or set-command of the
\* invocation comes before a prompt.
C21_CompleterFresh ==
    pc \in Prompts =>
        /\ AliasSet = DOMAIN db
        /\ Len(aliases) = Cardinality(DOMAIN db)
        /\ \A text \in CompleterTexts :
              LET m == Matches(aliases, text)
              IN  {m[i] : i \in 1..Len(m)} =
                      {k \in DOMAIN db : IsPrefix(text, k)}
        /\ ev \cap {"added", "deleted", "cmd_set"} = {}

\* the select prompt of a second invocation, after a hand-off, on a store
\* the first invocation changed
C21_Witness ==
    /\ pc = "select_read"
    /\ run = 2
    /\ "handoff" \in ev
    /\ DOMAIN db \notin {DOMAIN Store0, DOMAIN DummyDb}

====
